---- MODULE Spec2Model ----
(***************************************************************************)
(* radIO: a daemon binding GPIO lines to system actions (src/main.rs).     *)
(* The model follows main(): load_config, sanitise_gpio_names, init_log,   *)
(* Chip::new, the output loop, the input loop and tick(), with             *)
(* exec_binding as the activation that main and tick await.                *)
(* Strings the program edits (binding keys) are sequences of one-character *)
(* strings; strings it only compares (action names) are TLA+ strings.      *)
(***************************************************************************)
EXTENDS Integers, Sequences, FiniteSets, TLC

VARIABLES
    file,       \* CFGPATH: [state: "absent" or "present", content: the TOML text]
    chipOk,     \* whether Chip::new(cfg.master_chip) succeeds
    unavail,    \* lines the chip cannot hand out (bad offset or claimed elsewhere)
    raw,        \* the AppConfig load_config returned (the default until then)
    cfg,        \* main's cfg (the default until it is bound)
    pc,         \* main's position
    err,        \* the error main returned with, "" while it runs
    logInits,   \* number of CombinedLogger::init calls
    outTodo,    \* entries of cfg.output_binding the output loop has yet to yield
    inTodo,     \* entries of cfg.input_binding the input loop has yet to yield
    events,     \* input_events: sequence of [func, gpio] (the handle is stream[i])
    stream,     \* per subscription: [q: items ready to be read, closed: BOOLEAN]
    idx,        \* tick: index of the element the for-iterator yields next
    running,    \* activations of exec_binding that have not returned
    nextId,     \* identity of the next activation
    effects,    \* side effects performed so far, in order
    fallsRead,  \* per subscription: falling edges tick has read
    risesRead,  \* per subscription: rising edges tick has read
    invoked,    \* per subscription: exec_binding calls tick has made
    eosSeen,    \* per subscription: end-of-stream observations (saturating)
    errRead,    \* the subscription whose stream yielded an error, 0 if none did
    fallLog,    \* subscriptions in the order their falling edges were read
    startLog,   \* activation owners in the order the activations first acted
    passLog,    \* subscriptions visited in the current outer iteration
    arrived     \* number of items the kernel has delivered to streams

vars == <<file, chipOk, unavail, raw, cfg, pc, err, logInits, outTodo, inTodo,
          events, stream, idx, running, nextId, effects, fallsRead, risesRead,
          invoked, eosSeen, errRead, fallLog, startLog, passLog, arrived>>

\* ------------------------------------------------------------ bounds
MaxArrivals == 2  \* items delivered to the event streams in a run
MaxEos == 2       \* end-of-stream observations counted per subscription
MaxPad == 1       \* whitespace characters on each side of a binding key
MaxKeyNum == 12   \* largest line number written in a binding key

\* ------------------------------------------------------------ strings
gpioLit == <<"g", "p", "i", "o">>
GPIOLit == <<"G", "P", "I", "O">>
Digits == <<"0", "1", "2", "3", "4", "5", "6", "7", "8", "9">>
White == {" ", "\t"}

IsDigit(c) == \E d \in 1..10 : Digits[d] = c
DigitVal(c) == (CHOOSE d \in 1..10 : Digits[d] = c) - 1

\* str::replace("gpio", ""): every non-overlapping match, left to right
RECURSIVE ReplaceGpio(_)
ReplaceGpio(s) ==
    IF Len(s) < Len(gpioLit) THEN s
    ELSE IF SubSeq(s, 1, Len(gpioLit)) = gpioLit
         THEN ReplaceGpio(SubSeq(s, Len(gpioLit) + 1, Len(s)))
         ELSE <<Head(s)>> \o ReplaceGpio(Tail(s))

RECURSIVE TrimStart(_)
TrimStart(s) ==
    IF s # <<>> /\ Head(s) \in White THEN TrimStart(Tail(s)) ELSE s

RECURSIVE TrimEnd(_)
TrimEnd(s) ==
    IF s # <<>> /\ s[Len(s)] \in White THEN TrimEnd(SubSeq(s, 1, Len(s) - 1)) ELSE s

\* str::trim
Trim(s) == TrimEnd(TrimStart(s))

\* k.replace("gpio", "").trim().to_string()
SanitiseKeyUntrimmed(k) == ReplaceGpio(k)
SanitiseKey(k) == Trim(ReplaceGpio(k))

\* u32::MAX, 4294967295, digit by digit
U32MaxDigits == <<"4", "2", "9", "4", "9", "6", "7", "2", "9", "5">>

RECURSIVE StripZeros(_)
StripZeros(s) == IF s # <<>> /\ Head(s) = "0" THEN StripZeros(Tail(s)) ELSE s

\* d > e for two digit strings of the same length
RECURSIVE DigitsGreater(_, _)
DigitsGreater(d, e) ==
    IF d = <<>> THEN FALSE
    ELSE IF DigitVal(Head(d)) # DigitVal(Head(e))
         THEN DigitVal(Head(d)) > DigitVal(Head(e))
         ELSE DigitsGreater(Tail(d), Tail(e))

\* the checked multiply-and-add of from_str_radix leaves u32
Overflows(d) ==
    LET n == StripZeros(d)
    IN  \/ Len(n) > Len(U32MaxDigits)
        \/ Len(n) = Len(U32MaxDigits) /\ DigitsGreater(n, U32MaxDigits)

RECURSIVE DigitsValue(_, _)
DigitsValue(s, acc) ==
    IF s = <<>> THEN acc ELSE DigitsValue(Tail(s), acc * 10 + DigitVal(Head(s)))

\* str::parse::<u32>: an optional "+", then one or more digits, no overflow
ParseU32Lenient(s) ==
    IF s = <<>> \/ \E i \in 1..Len(s) : ~IsDigit(s[i])
    THEN [ok |-> TRUE, val |-> 0]
    ELSE [ok |-> TRUE, val |-> DigitsValue(s, 0)]

ParseU32(s) ==
    LET body == IF s # <<>> /\ Head(s) = "+" THEN Tail(s) ELSE s
    IN  IF body = <<>> \/ \E i \in 1..Len(body) : ~IsDigit(body[i])
        THEN [ok |-> FALSE, val |-> 0]
        ELSE IF Overflows(body)
             THEN [ok |-> FALSE, val |-> 0]
             ELSE [ok |-> TRUE, val |-> DigitsValue(body, 0)]

\* ------------------------------------------------------------ actions
PowerOff == "PowerOff"
Reboot == "Reboot"
Halt == "Halt"
SetOutputHigh == "SetOutputHigh"
SetOutputLow == "SetOutputLow"
Unrecognized == "Unrecognized"

\* the names are compared without regard to case and surrounding spaces
ClassifyLoosely(input) ==
    CASE input \in {"poweroff", "shutdown", "PowerOff", "POWEROFF", "Shutdown"} -> PowerOff
      [] input \in {"restart", "Restart"} -> Reboot
      [] input \in {"halt", "HALT", " halt", "halt "} -> Halt
      [] input \in {"seton", "SetOn"} -> SetOutputHigh
      [] input \in {"setoff", "setoff "} -> SetOutputLow
      [] OTHER -> Unrecognized

\* the match of exec_binding
Classify(input) ==
    CASE input \in {"poweroff", "shutdown"} -> PowerOff
      [] input = "restart" -> Reboot
      [] input = "halt" -> Halt
      [] input = "seton" -> SetOutputHigh
      [] input = "setoff" -> SetOutputLow
      [] OTHER -> Unrecognized

PowerKinds == {PowerOff, Reboot, Halt}
SetKinds == {SetOutputHigh, SetOutputLow}

\* the system-manager method behind poweroff(), reboot(), halt()
ManagerMethod(kind) ==
    CASE kind = PowerOff -> "power_off"
      [] kind = Reboot -> "reboot"
      [] kind = Halt -> "halt"

\* u8::from(state) for the two static_line calls
LevelInverted(kind) == IF kind = SetOutputHigh THEN 0 ELSE 1
Level(kind) == IF kind = SetOutputHigh THEN 1 ELSE 0

\* ------------------------------------------------------------ configuration
CFGPATH == "/etc/radio.conf"
DEFAULT_CHIP == "/dev/gpiochip0"

\* HashMap::new()
EmptyMap == [k \in {} |-> ""]

\* impl Default for AppConfig
DefaultConfig ==
    [master_chip |-> DEFAULT_CHIP, log_level |-> 3,
     input_binding |-> EmptyMap, output_binding |-> EmptyMap]

\* HashMap::insert: a later insert under the same key replaces the value
MapInsert(m, k, v) == [x \in DOMAIN m \cup {k} |-> IF x = k THEN v ELSE m[x]]

MapRemove(m, k) == [x \in DOMAIN m \ {k} |-> m[x]]

\* the orders in which iterating a HashMap may yield the keys of m
Orders(m) ==
    {o \in [1..Cardinality(DOMAIN m) -> DOMAIN m] :
        \A i, j \in DOMAIN o : i # j => o[i] # o[j]}

\* the loop without the clear() before it: the raw keys stay in the map
RECURSIVE SanitiseIntoKeeping(_, _, _)
SanitiseIntoKeeping(acc, m, o) ==
    IF o = <<>> THEN acc
    ELSE SanitiseIntoKeeping(MapInsert(MapInsert(acc, Head(o), m[Head(o)]),
                                       SanitiseKey(Head(o)), m[Head(o)]), m, Tail(o))

\* one of the two loops of sanitise_gpio_names, iterating the clone in order o
RECURSIVE SanitiseInto(_, _, _)
SanitiseInto(acc, m, o) ==
    IF o = <<>> THEN acc
    ELSE SanitiseInto(MapInsert(acc, SanitiseKey(Head(o)), m[Head(o)]), m, Tail(o))

\* sanitise_gpio_names, the output map iterated in order oo and the input map in oi
SanitiseGpioNames(c, oo, oi) ==
    [c EXCEPT !.output_binding = SanitiseInto(EmptyMap, c.output_binding, oo),
              !.input_binding = SanitiseInto(EmptyMap, c.input_binding, oi)]

\* the configuration files considered: the keys and action names of the input
\* and of the output bindings, and the lines a chip may refuse
InKeys == {<<"1">>, <<" ">> \o gpioLit \o <<"2">>, <<"x">>}
OutKeys == {gpioLit \o <<"2">>, <<"x">>}
InNames == {"poweroff", "seton", "setoff", "blink"}
OutNames == {"restart", "halt", "seton", "blink"}
Refusable == {2}

\* the HashMap<String, String> values with keys among `keys`
Bindings(keys, names) == UNION {[D -> names] : D \in SUBSET keys}

\* ------------------------------------------------------------ the TOML text
\* log_level: u8
U8Max == 255

\* The text of radIO.toml, line by line.  A line is a table header, a top-level
\* pair with a string or an integer value, a pair of a binding table (its key
\* is the string the program edits), or something that is not TOML.
TableLine(name) == [t |-> "table", key |-> name, k |-> <<>>, s |-> "", n |-> 0]
StrLine(key, s) == [t |-> "str", key |-> key, k |-> <<>>, s |-> s, n |-> 0]
IntLine(key, n) == [t |-> "int", key |-> key, k |-> <<>>, s |-> "", n |-> n]
EntryLine(k, s) == [t |-> "entry", key |-> "", k |-> k, s |-> s, n |-> 0]
JunkLine == [t |-> "junk", key |-> "", k |-> <<>>, s |-> "", n |-> 0]

\* the pairs of one table, in the order the map yields them
EntryLines(m) ==
    LET o == CHOOSE o \in Orders(m) : TRUE
    IN  [i \in 1..Len(o) |-> EntryLine(o[i], m[o[i]])]

\* a header only for a table that has pairs
ToStringPrettyBare(c) ==
    <<StrLine("master_chip", c.master_chip), IntLine("log_level", c.log_level)>>
    \o (IF DOMAIN c.input_binding = {} THEN <<>> ELSE <<TableLine("input_binding")>>)
    \o EntryLines(c.input_binding)
    \o (IF DOMAIN c.output_binding = {} THEN <<>> ELSE <<TableLine("output_binding")>>)
    \o EntryLines(c.output_binding)

\* toml::to_string_pretty(&AppConfig): the fields in declaration order, the two
\* maps as tables, a header also for a table without pairs
ToStringPretty(c) ==
    <<StrLine("master_chip", c.master_chip), IntLine("log_level", c.log_level),
      TableLine("input_binding")>>
    \o EntryLines(c.input_binding)
    \o <<TableLine("output_binding")>>
    \o EntryLines(c.output_binding)

MapFields == {"input_binding", "output_binding"}
AllFields == {"master_chip", "log_level"} \cup MapFields

\* one line read into the configuration being built: acc.table is the table
\* the line belongs to, acc.seen the fields met so far
ParseLine(acc, l) ==
    CASE l.t = "junk" -> [acc EXCEPT !.ok = FALSE]
      [] l.t = "table" ->
            IF l.key \in acc.seen
            THEN [acc EXCEPT !.ok = FALSE]
            ELSE [acc EXCEPT !.table = l.key, !.seen = @ \cup {l.key}]
      [] l.t = "str" ->
            IF acc.table # "" \/ l.key \in acc.seen \/ l.key \in {"log_level"} \cup MapFields
            THEN [acc EXCEPT !.ok = FALSE]
            ELSE IF l.key = "master_chip"
                 THEN [acc EXCEPT !.cfg.master_chip = l.s, !.seen = @ \cup {l.key}]
                 ELSE [acc EXCEPT !.seen = @ \cup {l.key}]
      [] l.t = "int" ->
            IF acc.table # "" \/ l.key \in acc.seen \/ l.key \in {"master_chip"} \cup MapFields
            THEN [acc EXCEPT !.ok = FALSE]
            ELSE IF l.key = "log_level"
                 THEN IF l.n \in 0..U8Max
                      THEN [acc EXCEPT !.cfg.log_level = l.n, !.seen = @ \cup {l.key}]
                      ELSE [acc EXCEPT !.ok = FALSE]
                 ELSE [acc EXCEPT !.seen = @ \cup {l.key}]
      [] OTHER ->
            IF acc.table = "input_binding" /\ l.k \notin DOMAIN acc.cfg.input_binding
            THEN [acc EXCEPT !.cfg.input_binding = MapInsert(@, l.k, l.s)]
            ELSE IF acc.table = "output_binding" /\ l.k \notin DOMAIN acc.cfg.output_binding
                 THEN [acc EXCEPT !.cfg.output_binding = MapInsert(@, l.k, l.s)]
                 ELSE [acc EXCEPT !.ok = FALSE]

RECURSIVE ParseLines(_, _)
ParseLines(lines, acc) ==
    IF lines = <<>> \/ ~acc.ok
    THEN acc
    ELSE ParseLines(Tail(lines), ParseLine(acc, Head(lines)))

\* toml::from_str::<AppConfig>(text): every field of AppConfig must be there
FromStr(text) ==
    LET start == [ok |-> TRUE, table |-> "", seen |-> {},
                  cfg |-> [master_chip |-> "", log_level |-> 0,
                           input_binding |-> EmptyMap, output_binding |-> EmptyMap]]
        end == ParseLines(text, start)
    IN  [ok |-> end.ok /\ AllFields \subseteq end.seen, cfg |-> end.cfg]

\* texts toml::from_str rejects: not TOML, and TOML without a field
MalformedTexts == {<<JunkLine>>, <<StrLine("master_chip", DEFAULT_CHIP)>>}

Files ==
    {[state |-> "absent", content |-> <<>>]}
    \cup {[state |-> "present", content |-> t] : t \in MalformedTexts}
    \cup {[state |-> "present",
           content |-> ToStringPretty([master_chip |-> DEFAULT_CHIP, log_level |-> 3,
                                       input_binding |-> i, output_binding |-> o])] :
            i \in Bindings(InKeys, InNames), o \in Bindings(OutKeys, OutNames)}

\* ------------------------------------------------------------ initial state
Init ==
    /\ file \in Files
    /\ chipOk \in BOOLEAN
    /\ unavail \in SUBSET Refusable
    /\ raw = DefaultConfig
    /\ cfg = DefaultConfig
    /\ pc = "load_config"
    /\ err = ""
    /\ logInits = 0
    /\ outTodo = EmptyMap
    /\ inTodo = EmptyMap
    /\ events = <<>>
    /\ stream = <<>>
    /\ idx = 1
    /\ running = {}
    /\ nextId = 1
    /\ effects = <<>>
    /\ fallsRead = <<>>
    /\ risesRead = <<>>
    /\ invoked = <<>>
    /\ eosSeen = <<>>
    /\ errRead = 0
    /\ fallLog = <<>>
    /\ startLog = <<>>
    /\ passLog = <<>>
    /\ arrived = 0

envVars == <<file, chipOk, unavail>>
startVars == <<raw, cfg, logInits, outTodo, inTodo>>
subVars == <<events, stream>>
callVars == <<running, nextId, invoked>>
readVars == <<fallsRead, risesRead, eosSeen, errRead, fallLog, passLog>>

\* one side effect: its kind, its subject, the line, an argument, and on whose
\* behalf (0: the output loop, i: the i-th subscription, -1: load_config)
Effect(k, m, line, arg, by) == [k |-> k, m |-> m, line |-> line, arg |-> arg, by |-> by]

\* main returns Err(e) (or panics): the process ends
Abort(e) ==
    /\ pc' = "failed"
    /\ err' = e

\* ------------------------------------------------------------ startup
\* load_config, file present: read_to_string and toml::from_str
LoadConfigPresent ==
    /\ pc = "load_config"
    /\ file.state # "absent"
    /\ IF ~FromStr(file.content).ok
       THEN Abort("toml") /\ UNCHANGED raw
       ELSE raw' = FromStr(file.content).cfg /\ pc' = "sanitise" /\ UNCHANGED err
    /\ UNCHANGED <<envVars, cfg, logInits, outTodo, inTodo, subVars, idx, callVars, effects, readVars, startLog, arrived>>

\* load_config, file absent: the default is written to CFGPATH and returned
LoadConfigAbsent ==
    /\ pc = "load_config"
    /\ file.state = "absent"
    /\ \E written \in BOOLEAN :
        IF written
        THEN /\ file' = [state |-> "present", content |-> ToStringPretty(DefaultConfig)]
             /\ effects' = Append(effects, Effect("write", CFGPATH, 0, 0, -1))
             /\ raw' = DefaultConfig
             /\ pc' = "sanitise"
             /\ UNCHANGED err
        ELSE Abort("io") /\ UNCHANGED <<file, raw, effects>>
    /\ UNCHANGED <<chipOk, unavail, cfg, logInits, outTodo, inTodo, subVars, idx,
                   callVars, readVars, startLog, arrived>>

\* let cfg = sanitise_gpio_names(...)
Sanitise ==
    /\ pc = "sanitise"
    /\ \E oo \in Orders(raw.output_binding), oi \in Orders(raw.input_binding) :
        cfg' = SanitiseGpioNames(raw, oo, oi)
    /\ pc' = "init_log"
    /\ UNCHANGED <<envVars, raw, err, logInits, outTodo, inTodo, subVars, idx,
                   callVars, effects, readVars, startLog, arrived>>

\* init_log(&cfg)?; File::create(..).unwrap() panics when the log file cannot be made
InitLog ==
    /\ pc = "init_log"
    /\ \E created \in BOOLEAN :
        IF created
        THEN logInits' = logInits + 1 /\ pc' = "chip" /\ UNCHANGED err
        ELSE Abort("log") /\ UNCHANGED logInits
    /\ UNCHANGED <<envVars, raw, cfg, outTodo, inTodo, subVars, idx, callVars, effects, readVars, startLog, arrived>>

\* let mut chip = Chip::new(cfg.master_chip)?; the two for loops take the maps
ChipNew ==
    /\ pc = "chip"
    /\ IF chipOk
       THEN /\ pc' = "outputs"
            /\ outTodo' = cfg.output_binding
            /\ inTodo' = cfg.input_binding
            /\ UNCHANGED err
       ELSE Abort("chip") /\ UNCHANGED <<outTodo, inTodo>>
    /\ UNCHANGED <<envVars, raw, cfg, logInits, subVars, idx, callVars,
                   effects, readVars, startLog, arrived>>

\* ------------------------------------------------------------ exec_binding
GraceSecs == 2

\* the statements of a power arm of exec_binding, in program order
PowerStepsCallFirst == <<"call", "sync", "sleep">>
PowerSteps == <<"sync", "sleep", "call">>

\* `.await?` on exec_binding: the caller is suspended until the activation returns
AwaitingDetached(caller) == caller
Awaiting(caller) == IF caller = "tick" THEN "tick_wait" ELSE "outputs_wait"

\* exec_binding(&func, chip, gpio) is called on behalf of `by` (0: the output loop)
Invoke(func, gpio, by) ==
    /\ running' = running \cup {[id |-> nextId, by |-> by, func |-> func,
                                 gpio |-> gpio, st |-> 0]}
    /\ nextId' = nextId + 1
    /\ invoked' = IF by \in DOMAIN invoked THEN [invoked EXCEPT ![by] = @ + 1]
                  ELSE invoked

\* the caller does not go on once exec_binding has returned Ok(())
ResumedNowhere == "done"

\* the caller resumes after exec_binding returned Ok(())
Resumed ==
    CASE pc = "tick_wait" -> "tick"
      [] pc = "outputs_wait" -> "outputs"
      [] OTHER -> pc

Started(r) == IF r.st = 0 THEN Append(startLog, r.by) ELSE startLog

\* exec_binding returns Ok(()) to its caller
Return(r) ==
    /\ running' = running \ {r}
    /\ pc' = Resumed
    /\ UNCHANGED err

\* exec_binding returns Err(e), which `?` propagates out of main
Raise(r, e) ==
    /\ running' = running \ {r}
    /\ Abort(e)

\* one statement of a power arm: nix::unistd::sync()
ExecSync(r) ==
    /\ r \in running
    /\ Classify(r.func) \in PowerKinds
    /\ r.st < Len(PowerSteps)
    /\ PowerSteps[r.st + 1] = "sync"
    /\ effects' = Append(effects, Effect("sync", "", r.gpio, 0, r.by))
    /\ startLog' = Started(r)
    /\ IF r.st + 1 = Len(PowerSteps)
       THEN Return(r)
       ELSE /\ running' = (running \ {r}) \cup {[r EXCEPT !.st = r.st + 1]}
            /\ UNCHANGED <<pc, err>>
    /\ UNCHANGED <<envVars, startVars, subVars, idx, nextId, invoked, readVars, arrived>>

\* one statement of a power arm: thread::sleep(Duration::from_secs(2))
ExecSleep(r) ==
    /\ r \in running
    /\ Classify(r.func) \in PowerKinds
    /\ r.st < Len(PowerSteps)
    /\ PowerSteps[r.st + 1] = "sleep"
    /\ effects' = Append(effects, Effect("sleep", "", r.gpio, GraceSecs, r.by))
    /\ startLog' = Started(r)
    /\ IF r.st + 1 = Len(PowerSteps)
       THEN Return(r)
       ELSE /\ running' = (running \ {r}) \cup {[r EXCEPT !.st = r.st + 1]}
            /\ UNCHANGED <<pc, err>>
    /\ UNCHANGED <<envVars, startVars, subVars, idx, nextId, invoked, readVars, arrived>>

\* poweroff()? / reboot()? / halt()?: the connection, the proxy, then the call
ManagerOutcomes == {"ok", "connection_failed", "proxy_failed", "call_failed"}

ExecManagerCall(r) ==
    /\ r \in running
    /\ Classify(r.func) \in PowerKinds
    /\ r.st < Len(PowerSteps)
    /\ PowerSteps[r.st + 1] = "call"
    /\ startLog' = Started(r)
    /\ \E out \in ManagerOutcomes :
        /\ effects' =
             IF out \in {"ok", "call_failed"}
             THEN Append(effects, Effect("call", ManagerMethod(Classify(r.func)),
                                         r.gpio, IF out = "ok" THEN 1 ELSE 0, r.by))
             ELSE effects
        /\ IF out # "ok" THEN Raise(r, "manager")
           ELSE IF r.st + 1 = Len(PowerSteps)
                THEN Return(r)
                ELSE /\ running' = (running \ {r}) \cup {[r EXCEPT !.st = r.st + 1]}
                     /\ UNCHANGED <<pc, err>>
    /\ UNCHANGED <<envVars, startVars, subVars, idx, nextId, invoked, readVars, arrived>>

\* the request is made whether or not the chip hands out the line
ExecStaticLineUnchecked(r) ==
    /\ r \in running
    /\ Classify(r.func) \in SetKinds
    /\ startLog' = Started(r)
    /\ effects' = Append(effects,
            Effect("request", "output", r.gpio, Level(Classify(r.func)), r.by))
    /\ Return(r)
    /\ UNCHANGED <<envVars, startVars, subVars, idx, nextId, invoked, readVars, arrived>>

\* static_line(chip, gpio, state).await?: get_line, then request in output mode
ExecStaticLine(r) ==
    /\ r \in running
    /\ Classify(r.func) \in SetKinds
    /\ startLog' = Started(r)
    /\ \/ /\ r.gpio \in unavail           \* chip.get_line(gpionum)? fails
          /\ UNCHANGED effects
          /\ Raise(r, "gpio")
       \/ /\ r.gpio \notin unavail
          /\ \E granted \in BOOLEAN :
              /\ effects' = Append(effects,
                    Effect("request", "output", r.gpio, Level(Classify(r.func)), r.by))
              /\ IF granted THEN Return(r) ELSE Raise(r, "gpio")
    /\ UNCHANGED <<envVars, startVars, subVars, idx, nextId, invoked, readVars, arrived>>

\* the default arm: error!("Unknown function")
ExecUnknownFatal(r) ==
    /\ r \in running
    /\ Classify(r.func) = Unrecognized
    /\ startLog' = Started(r)
    /\ effects' = Append(effects, Effect("log_error", "Unknown function", r.gpio, 0, r.by))
    /\ Raise(r, "unknown")
    /\ UNCHANGED <<envVars, startVars, subVars, idx, nextId, invoked, readVars, arrived>>

ExecUnknown(r) ==
    /\ r \in running
    /\ Classify(r.func) = Unrecognized
    /\ startLog' = Started(r)
    /\ effects' = Append(effects, Effect("log_error", "Unknown function", r.gpio, 0, r.by))
    /\ Return(r)
    /\ UNCHANGED <<envVars, startVars, subVars, idx, nextId, invoked, readVars, arrived>>

\* ------------------------------------------------------------ the two loops of main
\* for (gpio, func) in cfg.output_binding: the key is parsed, exec_binding awaited
OutputsNext ==
    /\ pc = "outputs"
    /\ \E k \in DOMAIN outTodo :
        /\ outTodo' = MapRemove(outTodo, k)
        /\ IF ParseU32(k).ok
           THEN /\ Invoke(outTodo[k], ParseU32(k).val, 0)
                /\ pc' = Awaiting("outputs")
                /\ UNCHANGED err
           ELSE Abort("parse") /\ UNCHANGED callVars
    /\ UNCHANGED <<envVars, raw, cfg, logInits, inTodo, subVars, idx, effects,
                   readVars, startLog, arrived>>

\* the output loop is left while bindings remain
OutputsDoneEarly ==
    /\ pc = "outputs"
    /\ pc' = "inputs"
    /\ UNCHANGED <<envVars, startVars, err, subVars, idx, callVars, effects,
                   readVars, startLog, arrived>>

\* the output loop is exhausted: main goes on to "Setup input"
OutputsDone ==
    /\ pc = "outputs"
    /\ DOMAIN outTodo = {}
    /\ pc' = "inputs"
    /\ UNCHANGED <<envVars, startVars, err, subVars, idx, callVars, effects,
                   readVars, startLog, arrived>>

\* for (gpio, func) in cfg.input_binding: parse, get_evt_handle, push
InputsNext ==
    /\ pc = "inputs"
    /\ \E k \in DOMAIN inTodo :
        /\ inTodo' = MapRemove(inTodo, k)
        /\ IF ~ParseU32(k).ok
           THEN Abort("parse") /\ UNCHANGED <<subVars, readVars, invoked>>
           ELSE IF ParseU32(k).val \in unavail
           THEN Abort("gpio") /\ UNCHANGED <<subVars, readVars, invoked>>
           ELSE /\ events' = Append(events, [func |-> inTodo[k], gpio |-> ParseU32(k).val])
                /\ stream' = Append(stream, [q |-> <<>>, closed |-> FALSE])
                /\ fallsRead' = Append(fallsRead, 0)
                /\ risesRead' = Append(risesRead, 0)
                /\ invoked' = Append(invoked, 0)
                /\ eosSeen' = Append(eosSeen, 0)
                /\ UNCHANGED <<pc, err, errRead, fallLog, passLog>>
    /\ UNCHANGED <<envVars, raw, cfg, logInits, outTodo, idx, running, nextId,
                   effects, startLog, arrived>>

\* tick(&mut input_events, &mut chip).await?
InputsDone ==
    /\ pc = "inputs"
    /\ DOMAIN inTodo = {}
    /\ pc' = "tick"
    /\ UNCHANGED <<envVars, startVars, err, subVars, idx, callVars, effects,
                   readVars, startLog, arrived>>

\* ------------------------------------------------------------ tick
\* `for evt in events.into_iter()`: the subscription whose stream tick awaits
PolledAnyReady(i) == i \in DOMAIN events
Polled(i) == i = idx

\* info.event_type() == EventType::FallingEdge
TriggersOnAnyEdge(edge) == edge \in {"Rising", "Falling"}
Triggers(edge) == edge = "Falling"

\* what evt.0.next().await yields: the oldest item, None once the stream has
\* ended, and nothing (tick stays suspended) while the stream is open and empty
HasItem(i) == stream[i].q # <<>>
AtEnd(i) == stream[i].q = <<>> /\ stream[i].closed

\* the visit drains the stream
TakenAll(i) == [stream EXCEPT ![i].q = <<>>]

\* next() has yielded the oldest item of the stream
Taken(i) == [stream EXCEPT ![i].q = Tail(@)]

Bump(f, i) == [f EXCEPT ![i] = @ + 1]

\* the for loop steps over the subscription after the one it has polled
VisitedSkipping(i) ==
    /\ passLog' = Append(passLog, i)
    /\ idx' = idx + 2

\* the iterator has yielded events[i]: the for loop's next element is the one after
Visited(i) ==
    /\ passLog' = Append(passLog, i)
    /\ idx' = idx + 1

\* Some(event) with event = Ok(info): exec_binding(..).await? on a falling edge
TickEvent ==
    /\ pc = "tick"
    /\ \E i \in DOMAIN events :
        /\ Polled(i)
        /\ HasItem(i)
        /\ Head(stream[i].q) \in {"Rising", "Falling"}
        /\ stream' = Taken(i)
        /\ Visited(i)
        /\ fallsRead' = IF Head(stream[i].q) = "Falling" THEN Bump(fallsRead, i)
                        ELSE fallsRead
        /\ risesRead' = IF Head(stream[i].q) = "Rising" THEN Bump(risesRead, i)
                        ELSE risesRead
        /\ fallLog' = IF Head(stream[i].q) = "Falling" THEN Append(fallLog, i)
                      ELSE fallLog
        /\ IF Triggers(Head(stream[i].q))
           THEN /\ Invoke(events[i].func, events[i].gpio, i)
                /\ pc' = Awaiting("tick")
           ELSE UNCHANGED <<callVars, pc>>
    /\ UNCHANGED <<envVars, startVars, err, events, effects, eosSeen, errRead,
                   startLog, arrived>>

\* `let info = event?`: the error returns from tick and from main
StreamErrorSkipped == UNCHANGED <<pc, err>>
StreamError == Abort("stream")

\* Some(event) with event = Err(e)
TickError ==
    /\ pc = "tick"
    /\ \E i \in DOMAIN events :
        /\ Polled(i)
        /\ HasItem(i)
        /\ Head(stream[i].q) = "Error"
        /\ stream' = Taken(i)
        /\ Visited(i)
        /\ errRead' = i
    /\ StreamError
    /\ UNCHANGED <<envVars, startVars, events, callVars, effects, fallsRead,
                   risesRead, eosSeen, fallLog, startLog, arrived>>

\* None => continue
TickEndOfStreamStops ==
    /\ pc = "tick"
    /\ \E i \in DOMAIN events :
        /\ Polled(i)
        /\ AtEnd(i)
        /\ Visited(i)
        /\ eosSeen' = [eosSeen EXCEPT ![i] = IF @ < MaxEos THEN @ + 1 ELSE @]
    /\ pc' = "done"
    /\ UNCHANGED <<envVars, startVars, err, subVars, callVars, effects,
                   fallsRead, risesRead, errRead, fallLog, startLog, arrived>>

TickEndOfStream ==
    /\ pc = "tick"
    /\ \E i \in DOMAIN events :
        /\ Polled(i)
        /\ AtEnd(i)
        /\ Visited(i)
        /\ eosSeen' = [eosSeen EXCEPT ![i] = IF @ < MaxEos THEN @ + 1 ELSE @]
    /\ UNCHANGED <<envVars, startVars, pc, err, subVars, callVars, effects,
                   fallsRead, risesRead, errRead, fallLog, startLog, arrived>>

\* tick returns Ok(()) once the for loop is exhausted
TickNextPassReturns ==
    /\ pc = "tick"
    /\ idx > Len(events)
    /\ pc' = "done"
    /\ UNCHANGED <<envVars, startVars, idx, err, subVars, callVars, effects, readVars,
                   startLog, arrived>>

\* the for loop is exhausted: `loop` starts the next pass over events
TickNextPass ==
    /\ pc = "tick"
    /\ idx > Len(events)
    /\ idx' = 1
    /\ passLog' = <<>>
    /\ UNCHANGED <<envVars, startVars, pc, err, subVars, callVars, effects,
                   fallsRead, risesRead, eosSeen, errRead, fallLog, startLog, arrived>>

\* ------------------------------------------------------------ the GPIO device
Items == {"Rising", "Falling", "Error"}

\* the kernel queues an edge (or the transport reports an error) on a subscription
Arrive ==
    /\ pc # "failed"
    /\ arrived < MaxArrivals
    /\ \E i \in DOMAIN events, item \in Items :
        /\ ~stream[i].closed
        /\ stream' = [stream EXCEPT ![i].q = Append(@, item)]
    /\ arrived' = arrived + 1
    /\ UNCHANGED <<envVars, startVars, pc, err, events, idx, callVars,
                   effects, readVars, startLog>>

\* the stream of a subscription ends: next() yields None once it is drained
Close ==
    /\ pc # "failed"
    /\ \E i \in DOMAIN events :
        /\ ~stream[i].closed
        /\ stream' = [stream EXCEPT ![i].closed = TRUE]
    /\ UNCHANGED <<envVars, startVars, pc, err, events, idx, callVars,
                   effects, readVars, startLog, arrived>>

\* ------------------------------------------------------------ specification
Exec ==
    \E r \in running :
        \/ ExecSync(r)
        \/ ExecSleep(r)
        \/ ExecManagerCall(r)
        \/ ExecStaticLine(r)
        \/ ExecUnknown(r)

Next ==
    \/ LoadConfigPresent
    \/ LoadConfigAbsent
    \/ Sanitise
    \/ InitLog
    \/ ChipNew
    \/ OutputsNext
    \/ OutputsDone
    \/ InputsNext
    \/ InputsDone
    \/ Exec
    \/ TickEvent
    \/ TickError
    \/ TickEndOfStream
    \/ TickNextPass
    \/ Arrive
    \/ Close

Spec == Init /\ [][Next]_vars

\* ------------------------------------------------------------ claims
Subs == DOMAIN events

RECURSIVE CountBy(_, _)
\* number of effects performed on behalf of `by`
CountBy(log, by) ==
    IF log = <<>> THEN 0
    ELSE (IF Head(log).by = by THEN 1 ELSE 0) + CountBy(Tail(log), by)

IsPrefix(s, t) == Len(s) <= Len(t) /\ SubSeq(t, 1, Len(s)) = s

FromTick(by) == by > 0

\* C1: every falling edge tick reads makes exactly one exec_binding call, with the
\* subscription's action and line, and a rising edge makes none: per subscription
\* the number of calls equals the number of falling edges read, at every moment.
C1_OneCallPerFallingEdge ==
    /\ \A i \in Subs : invoked[i] = fallsRead[i]
    /\ \A r \in running :
        FromTick(r.by) =>
            /\ r.by \in Subs
            /\ r.func = events[r.by].func
            /\ r.gpio = events[r.by].gpio
    /\ nextId - 1 >= Len(fallLog)
    /\ \A i \in Subs : invoked[i] = Len(SelectSeq(fallLog, LAMBDA j : j = i))

C1_Witness ==
    \E i \in Subs :
        /\ risesRead[i] = 1
        /\ fallsRead[i] = 1
        /\ invoked[i] = 1
        /\ \E r \in running : r.by = i

\* nothing has come out of subscription i's stream so far: no event, no error,
\* no end-of-stream, and nothing is waiting in it
Silent(i) ==
    /\ stream[i].q = <<>>
    /\ ~stream[i].closed
    /\ fallsRead[i] = 0
    /\ risesRead[i] = 0
    /\ eosSeen[i] = 0
    /\ errRead # i

\* C2: while an earlier subscription's stream yields nothing, the action of a later
\* subscription is never executed, even if a falling edge is ready on the later one.
C2_HeadOfLineBlocking ==
    \A i, j \in Subs :
        (i < j /\ Silent(i)) =>
            /\ invoked[j] = 0
            /\ fallsRead[j] = 0
            /\ CountBy(effects, j) = 0

C2_Witness ==
    /\ Len(events) = 2
    /\ Silent(1)
    /\ pc = "tick"
    /\ idx = 1
    /\ arrived = MaxArrivals
    /\ stream[2].q # <<>>
    /\ Head(stream[2].q) = "Falling"
    /\ invoked[2] = 0

TickStarts == SelectSeq(startLog, FromTick)

\* C3: at most one action executes at a time, tick reads no stream while an action
\* executes, and actions start in the order their falling edges were read.
C3_Serialized ==
    /\ [](/\ Cardinality(running) <= 1
          /\ running # {} => pc \in {"tick_wait", "outputs_wait"}
          /\ IsPrefix(TickStarts, fallLog)
          /\ Len(fallLog) - Len(TickStarts) <= 1)
    /\ [][running # {} =>
            /\ UNCHANGED <<readVars, idx>>
            /\ \A i \in Subs : Len(stream'[i].q) >= Len(stream[i].q)]_vars

C3_Witness ==
    /\ Len(fallLog) = 2
    /\ fallLog[1] # fallLog[2]
    /\ TickStarts = fallLog
    /\ \E r \in running : r.st = 2 /\ r.by = fallLog[2]

\* the action name on whose behalf an effect was performed
FuncOf(e) ==
    IF FromTick(e.by) THEN events[e.by].func
    ELSE cfg.output_binding[CHOOSE k \in DOMAIN cfg.output_binding :
                                ParseU32(k).ok /\ ParseU32(k).val = e.line]

PowerNames == {"poweroff", "shutdown", "restart", "halt"}

ExpectedMethod(name) ==
    CASE name \in {"poweroff", "shutdown"} -> "power_off"
      [] name = "restart" -> "reboot"
      [] name = "halt" -> "halt"
      [] OTHER -> "none"

\* C4: for a power action the flush, then the 2-second wait, then the matching
\* system-manager call happen in that order: whenever a call has been attempted
\* (successful or not), the same activation's flush and wait immediately precede
\* it; and a power action that failed had flushed and waited.
C4_FlushWaitCall ==
    /\ \A k \in DOMAIN effects :
        effects[k].k = "call" =>
            /\ k >= 3
            /\ effects[k - 2] = Effect("sync", "", effects[k].line, 0, effects[k].by)
            /\ effects[k - 1] = Effect("sleep", "", effects[k].line, 2, effects[k].by)
            /\ FuncOf(effects[k]) \in PowerNames
            /\ effects[k].m = ExpectedMethod(FuncOf(effects[k]))
    /\ err = "manager" =>
        \E k \in DOMAIN effects :
            /\ k >= 2
            /\ effects[k].k = "sleep"
            /\ effects[k - 1].k = "sync"
            /\ k >= Len(effects) - 1

C4_Witness ==
    /\ pc = "failed"
    /\ err = "manager"
    /\ Len(effects) >= 3
    /\ effects[Len(effects)].k = "call"
    /\ effects[Len(effects)].arg = 0
    /\ FromTick(effects[Len(effects)].by)

\* C5: a stream error, or a failed system-manager call, ends the process: once a
\* stream has yielded an error or a call has failed main has returned the error,
\* the failed call is the last effect (flush and wait done, no transition), and a
\* process that has ended visits no subscription and executes nothing.
C5_RuntimeErrorsFatal ==
    /\ [](/\ errRead # 0 => pc = "failed" /\ err = "stream"
          /\ \A k \in DOMAIN effects :
                (effects[k].k = "call" /\ effects[k].arg = 0) =>
                    /\ pc = "failed"
                    /\ err = "manager"
                    /\ k = Len(effects)
          /\ pc = "failed" => running = {})
    /\ [][pc = "failed" =>
            UNCHANGED <<pc, effects, readVars, callVars, idx, events>>]_vars

C5_Witness ==
    /\ pc = "failed"
    /\ err = "stream"
    /\ errRead = 1
    /\ Len(events) = 2
    /\ stream[2].q # <<>>
    /\ Head(stream[2].q) = "Falling"
    /\ invoked[2] = 0

KnownNames == {"poweroff", "shutdown", "restart", "halt", "seton", "setoff"}

\* C6: a falling edge on a line bound to an unknown action name only logs an error
\* (no request, no system-manager call) and returns success: tick goes on with the
\* next subscription and the process does not end.
C6_UnknownIsNotFatal ==
    /\ [](\A k \in DOMAIN effects :
            (FromTick(effects[k].by) /\ FuncOf(effects[k]) \notin KnownNames) =>
                effects[k].k = "log_error")
    /\ [][\A r \in running :
            (FromTick(r.by) /\ r.func \notin KnownNames) =>
                \/ UNCHANGED <<pc, err, effects, running, idx>>
                \/ /\ effects' = Append(effects,
                          Effect("log_error", "Unknown function", r.gpio, 0, r.by))
                   /\ running' = {}
                   /\ pc' = "tick"
                   /\ err' = ""
                   /\ idx' = r.by + 1]_vars

C6_Witness ==
    /\ pc # "failed"
    /\ \E k \in DOMAIN effects :
        /\ k < Len(effects)
        /\ effects[k].k = "log_error"
        /\ FromTick(effects[k].by)
        /\ FromTick(effects[k + 1].by)
        /\ effects[k + 1].by # effects[k].by
        /\ effects[k + 1].k # "log_error"

\* C7: end-of-stream on a subscription neither stops tick nor removes the
\* subscription: observing it leaves tick running with the same subscriptions and
\* moves on to the next one; every completed pass has visited the ended
\* subscription again; no action is executed for it any more, while the other
\* subscriptions keep being read.
C7_EndOfStreamIsNoOp ==
    /\ [](/\ \A i \in Subs : eosSeen[i] > 0 => AtEnd(i) /\ pc # "done"
          /\ (pc = "tick" /\ idx > Len(events)) =>
                \A i \in Subs : eosSeen[i] > 0 => \E k \in DOMAIN passLog : passLog[k] = i)
    /\ [][(pc = "tick" /\ idx \in Subs /\ AtEnd(idx)) =>
            /\ pc' = "tick"
            /\ events' = events
            /\ running' = {}
            /\ effects' = effects
            /\ idx' \in {idx, idx + 1}]_vars
    /\ [][\A i \in Subs :
            eosSeen[i] > 0 =>
                /\ invoked'[i] = invoked[i]
                /\ CountBy(effects', i) = CountBy(effects, i)
                /\ events'[i] = events[i]]_vars

C7_Witness ==
    /\ Len(events) = 2
    /\ eosSeen[1] = 2
    /\ fallsRead[1] = 0
    /\ invoked[2] = 2
    /\ CountBy(effects, 2) >= 2
    /\ running = {}
    /\ pc = "tick"

RECURSIVE RequestsOk(_, _, _, _)
\* every effect of `log` made for subscription i is an output-mode request on
\* `line` with level `level`
RequestsOk(log, i, line, level) ==
    IF log = <<>> THEN TRUE
    ELSE /\ Head(log).by = i => Head(log) = Effect("request", "output", line, level, i)
         /\ RequestsOk(Tail(log), i, line, level)

\* activations of exec_binding made for subscription i that have not acted yet
Pending(i) == Cardinality({r \in running : r.by = i})

\* C8: for an input binding of line L to "setoff" ("seton") every falling edge read
\* on L makes exactly one output-mode request on L with level 0 (1), and a rising
\* edge makes none: the requests made for the subscription are as many as the
\* falling edges read (less the one whose action is about to act).
C8_SetLineOnFallingEdge ==
    \A i \in Subs :
        events[i].func \in {"seton", "setoff"} =>
            /\ CountBy(effects, i) + Pending(i) = fallsRead[i]
            /\ RequestsOk(effects, i, events[i].gpio,
                          IF events[i].func = "seton" THEN 1 ELSE 0)

C8_Witness ==
    \E i \in Subs :
        /\ events[i].func = "setoff"
        /\ risesRead[i] = 1
        /\ fallsRead[i] = 1
        /\ CountBy(effects, i) = 1
        /\ running = {}
        /\ pc = "tick"

DigitChars == {"0", "1", "2", "3", "4", "5", "6", "7", "8", "9"}

NonNumeric(s) == s = <<>> \/ \E i \in DOMAIN s : s[i] \notin DigitChars

\* a binding map has a key that is not a number once sanitised
HasBadKey(m) == \E k \in DOMAIN m : NonNumeric(SanitiseKey(k))

\* a binding map names, under one of `names`, a line the chip refuses
HasRefusedLine(m, names) ==
    \E k \in DOMAIN m :
        /\ ~NonNumeric(SanitiseKey(k))
        /\ m[k] \in names
        /\ DigitsValue(SanitiseKey(k), 0) \in unavail

\* the file is there and toml::from_str rejects it
Malformed == file.state = "present" /\ ~FromStr(file.content).ok

\* what the file says, for a file that is there and well formed
Written == FromStr(file.content).cfg

\* raw is the configuration load_config has returned
StartupFailure ==
    \/ ~chipOk
    \/ HasBadKey(raw.input_binding)
    \/ HasBadKey(raw.output_binding)
    \/ HasRefusedLine(raw.input_binding, InNames)
    \/ HasRefusedLine(raw.output_binding, {"seton", "setoff"})
    \/ Malformed

\* C9: when the chip cannot be opened, a line cannot be acquired, the file is
\* malformed or a key is not a number, the dispatch loop never starts and no event
\* is ever read from a subscription.
C9_StartupFailuresAbort ==
    StartupFailure =>
        /\ pc \notin {"tick", "tick_wait"}
        /\ passLog = <<>>
        /\ errRead = 0
        /\ \A i \in Subs : fallsRead[i] = 0 /\ risesRead[i] = 0 /\ eosSeen[i] = 0

C9_Witness ==
    /\ pc = "failed"
    /\ err \in {"parse", "gpio"}
    /\ Len(events) = 1
    /\ stream[1].q # <<>>
    /\ Head(stream[1].q) = "Falling"
    /\ effects # <<>>
    /\ StartupFailure

\* ------------------------------------------------------------ sanitising alone
\* the decimal rendering of n
RECURSIVE Dec(_)
Dec(n) == IF n < 10 THEN <<Digits[n + 1]>> ELSE Dec(n \div 10) \o <<Digits[(n % 10) + 1]>>

Pads == UNION {[1..n -> White] : n \in 0..MaxPad}

\* keys written as whitespace, a prefix, a line number, whitespace
PrefixedKeys(prefix) ==
    {a \o prefix \o Dec(n) \o b : a \in Pads, b \in Pads, n \in 0..MaxKeyNum}

SanKeys == PrefixedKeys(gpioLit) \cup PrefixedKeys(GPIOLit)

\* configuration files with one such key, bound as an input and perhaps as an output
SanFiles ==
    {[state |-> "present",
      content |-> ToStringPretty([master_chip |-> DEFAULT_CHIP, log_level |-> 3,
                                  input_binding |-> (k :> "seton"),
                                  output_binding |-> IF both THEN (k :> "halt") ELSE EmptyMap])] :
        k \in SanKeys, both \in BOOLEAN}

InitSan ==
    /\ file \in SanFiles
    /\ chipOk = TRUE
    /\ unavail = {}
    /\ raw = DefaultConfig
    /\ cfg = DefaultConfig
    /\ pc = "load_config"
    /\ err = ""
    /\ logInits = 0
    /\ outTodo = EmptyMap
    /\ inTodo = EmptyMap
    /\ events = <<>>
    /\ stream = <<>>
    /\ idx = 1
    /\ running = {}
    /\ nextId = 1
    /\ effects = <<>>
    /\ fallsRead = <<>>
    /\ risesRead = <<>>
    /\ invoked = <<>>
    /\ eosSeen = <<>>
    /\ errRead = 0
    /\ fallLog = <<>>
    /\ startLog = <<>>
    /\ passLog = <<>>
    /\ arrived = 0

\* let cfg = sanitise_gpio_names(load_config()?), and no further
NextSan ==
    \/ LoadConfigPresent
    \/ Sanitise

SanSpec == InitSan /\ [][NextSan]_vars

Sanitised == pc = "init_log"

\* the keys of a binding map are exactly the key `to`, come from the key `from`
SanitisedTo(rawMap, cfgMap, from, to) ==
    from \in DOMAIN rawMap =>
        /\ to \in DOMAIN cfgMap
        /\ cfgMap[to] = rawMap[from]
        /\ (DOMAIN rawMap = {from} => DOMAIN cfgMap = {to})

\* C10 as stated: "gpio" + N and "GPIO" + N, with surrounding whitespace, are both
\* sanitised to the decimal string of N.
C10_AnyCaseYieldsNumber ==
    Sanitised =>
        \A a \in Pads, b \in Pads, n \in 0..MaxKeyNum, prefix \in {gpioLit, GPIOLit} :
            /\ SanitisedTo(raw.input_binding, cfg.input_binding,
                           a \o prefix \o Dec(n) \o b, Dec(n))
            /\ SanitisedTo(raw.output_binding, cfg.output_binding,
                           a \o prefix \o Dec(n) \o b, Dec(n))

\* C10, amended: a key "gpio" + N (lower case) with surrounding whitespace is
\* sanitised to the decimal string of N; a key "GPIO" + N keeps its prefix and is
\* only trimmed, so it is not a number.
C10_LowerCaseYieldsNumber ==
    Sanitised =>
        \A a \in Pads, b \in Pads, n \in 0..MaxKeyNum :
            /\ SanitisedTo(raw.input_binding, cfg.input_binding,
                           a \o gpioLit \o Dec(n) \o b, Dec(n))
            /\ SanitisedTo(raw.output_binding, cfg.output_binding,
                           a \o gpioLit \o Dec(n) \o b, Dec(n))
            /\ SanitisedTo(raw.input_binding, cfg.input_binding,
                           a \o GPIOLit \o Dec(n) \o b, GPIOLit \o Dec(n))
            /\ SanitisedTo(raw.output_binding, cfg.output_binding,
                           a \o GPIOLit \o Dec(n) \o b, GPIOLit \o Dec(n))

C10_Witness ==
    /\ Sanitised
    /\ DOMAIN raw.input_binding = {<<"\t">> \o gpioLit \o Dec(MaxKeyNum) \o <<" ">>}
    /\ DOMAIN cfg.input_binding = {Dec(MaxKeyNum)}
    /\ DOMAIN cfg.output_binding = {Dec(MaxKeyNum)}


\* ------------------------------------------------------------ loading alone
MaxRuns == 2

\* number of effects of kind `kind`
RECURSIVE CountKind(_, _)
CountKind(log, kind) ==
    IF log = <<>> THEN 0
    ELSE (IF Head(log).k = kind THEN 1 ELSE 0) + CountKind(Tail(log), kind)

\* the process is started again after it ended or while it is past load_config:
\* main begins anew with the file the earlier run left
Restart ==
    /\ pc \in {"sanitise", "failed"}
    /\ CountKind(effects, "exec") + 1 < MaxRuns
    /\ pc' = "load_config"
    /\ err' = ""
    /\ raw' = DefaultConfig
    /\ effects' = Append(effects, Effect("exec", "", 0, 0, -1))
    /\ UNCHANGED <<envVars, cfg, logInits, outTodo, inTodo, subVars, idx, callVars,
                   readVars, startLog, arrived>>

InitLoad ==
    /\ file \in Files
    /\ chipOk = TRUE
    /\ unavail = {}
    /\ raw = DefaultConfig
    /\ cfg = DefaultConfig
    /\ pc = "load_config"
    /\ err = ""
    /\ logInits = 0
    /\ outTodo = EmptyMap
    /\ inTodo = EmptyMap
    /\ events = <<>>
    /\ stream = <<>>
    /\ idx = 1
    /\ running = {}
    /\ nextId = 1
    /\ effects = <<>>
    /\ fallsRead = <<>>
    /\ risesRead = <<>>
    /\ invoked = <<>>
    /\ eosSeen = <<>>
    /\ errRead = 0
    /\ fallLog = <<>>
    /\ startLog = <<>>
    /\ passLog = <<>>
    /\ arrived = 0

NextLoad == LoadConfigPresent \/ LoadConfigAbsent \/ Restart

LoadSpec == InitLoad /\ [][NextLoad]_vars

\* the default configuration was written by a run that has ended, and a later
\* run has loaded
ReloadedAfterWrite ==
    /\ pc # "load_config"
    /\ \E w, x \in DOMAIN effects :
        w < x /\ effects[w].k = "write" /\ effects[x].k = "exec" /\ x = Len(effects)

\* C12: when the file is absent and can be written, load_config writes it and
\* returns the default configuration; a later load_config reads the written file
\* and returns a configuration equal to the default.
C12_DefaultWrittenAndReloaded ==
    /\ [][(pc = "load_config" /\ file.state = "absent" /\ pc' = "sanitise") =>
            (file'.state = "present" /\ raw' = DefaultConfig)]_vars
    /\ [](ReloadedAfterWrite =>
            (pc = "sanitise" /\ err = "" /\ raw = DefaultConfig))

C12_Witness ==
    /\ ReloadedAfterWrite
    /\ pc = "sanitise"
    /\ raw = DefaultConfig
    /\ file.state = "present"

\* ------------------------------------------------------------ classifying alone
\* every variable of the process as main finds it
Fresh ==
    /\ raw = DefaultConfig
    /\ cfg = DefaultConfig
    /\ pc = "load_config"
    /\ err = ""
    /\ logInits = 0
    /\ outTodo = EmptyMap
    /\ inTodo = EmptyMap
    /\ events = <<>>
    /\ stream = <<>>
    /\ idx = 1
    /\ running = {}
    /\ nextId = 1
    /\ effects = <<>>
    /\ fallsRead = <<>>
    /\ risesRead = <<>>
    /\ invoked = <<>>
    /\ eosSeen = <<>>
    /\ errRead = 0
    /\ fallLog = <<>>
    /\ startLog = <<>>
    /\ passLog = <<>>
    /\ arrived = 0

\* action names as a configuration file may spell them
ClassNames ==
    {"poweroff", "shutdown", "restart", "halt", "seton", "setoff",
     "PowerOff", "POWEROFF", "Shutdown", "Restart", "reboot", "HALT", " halt", "halt ",
     "SetOn", "set_on", "setoff ", "power_off", "blink", ""}

ClassLine == <<"7">>

\* configuration files that bind one output line to one such name
ClassFiles ==
    {[state |-> "present",
      content |-> ToStringPretty([master_chip |-> DEFAULT_CHIP, log_level |-> 3,
                                  input_binding |-> EmptyMap,
                                  output_binding |-> (ClassLine :> n)])] :
        n \in ClassNames}

InitClass ==
    /\ file \in ClassFiles
    /\ chipOk = TRUE
    /\ unavail = {}
    /\ Fresh

NextClass ==
    \/ LoadConfigPresent
    \/ Sanitise
    \/ InitLog
    \/ ChipNew
    \/ OutputsNext
    \/ OutputsDone
    \/ Exec

ClassSpec == InitClass /\ [][NextClass]_vars

\* what the name stands for, spelled out: a manager method, a level, or nothing
Meaning(name) ==
    CASE name = "poweroff" -> "power_off"
      [] name = "shutdown" -> "power_off"
      [] name = "restart" -> "reboot"
      [] name = "halt" -> "halt"
      [] name = "seton" -> "high"
      [] name = "setoff" -> "low"
      [] OTHER -> "nothing"

\* the effect e is one of an action with that meaning
Befits(e, meaning) ==
    CASE meaning \in {"power_off", "reboot", "halt"} ->
            /\ e.k \in {"sync", "sleep", "call"}
            /\ e.k = "call" => e.m = meaning
      [] meaning = "high" -> e.k = "request" /\ e.m = "output" /\ e.arg = 1
      [] meaning = "low" -> e.k = "request" /\ e.m = "output" /\ e.arg = 0
      [] OTHER -> e.k = "log_error"

\* the name the file binds to the line
BoundName == Written.output_binding[ClassLine]

\* C11: every action name has exactly one kind: "poweroff" and "shutdown" power
\* off, "restart" reboots, "halt" halts, "seton" and "setoff" drive the line high
\* and low, and any other string, a differently cased or padded spelling included,
\* is unrecognized and is executed without failing.
C11_ClassificationExact ==
    /\ \A k \in DOMAIN effects : Befits(effects[k], Meaning(BoundName))
    /\ \A r \in running : r.func = BoundName
    /\ (pc = "inputs" /\ running = {}) => effects # <<>>
    /\ (Meaning(BoundName) = "nothing" /\ pc = "failed") => err = "log"

C11_Witness ==
    /\ BoundName = "PowerOff"
    /\ pc = "inputs"
    /\ Len(effects) = 1
    /\ effects[1].k = "log_error"

\* ------------------------------------------------------------ output initialisation
\* the effects the output loop has caused
ByOutputs(k) == k \in DOMAIN effects /\ effects[k].by = 0

\* the output binding whose key names the line
OutputNameOf(line) ==
    cfg.output_binding[CHOOSE k \in DOMAIN cfg.output_binding :
                            ParseU32(k).ok /\ ParseU32(k).val = line]

\* an output binding of one of `names` names a line the chip refuses
RefusedOutput(names) ==
    \E k \in DOMAIN cfg.output_binding :
        /\ ParseU32(k).ok
        /\ ParseU32(k).val \in unavail
        /\ cfg.output_binding[k] \in names

PastOutputs == pc \in {"inputs", "tick", "tick_wait"}

\* C13 (as stated): whatever the kind of an output binding, its line is acquired in
\* output mode before the side effect, and a line that cannot be acquired aborts
\* startup.
C13_EveryOutputAcquiresLine ==
    /\ \A k \in DOMAIN effects :
        (ByOutputs(k) /\ effects[k].k # "request") =>
            /\ effects[k].line \notin unavail
            /\ \E j \in 1..(k - 1) :
                /\ ByOutputs(j)
                /\ effects[j].k = "request"
                /\ effects[j].line = effects[k].line
    /\ (pc \notin {"load_config", "sanitise"} /\ RefusedOutput(OutNames)) => ~PastOutputs

\* C13 (amended): only for "seton" and "setoff" is the line of an output binding
\* acquired and requested in output mode, after its key is parsed, and only then
\* does a line that cannot be acquired abort startup; for a power action or an
\* unrecognized name no line is acquired and the action runs all the same.
C13_SetOutputsAcquireLine ==
    /\ [](\A k \in DOMAIN effects :
            ByOutputs(k) =>
                IF OutputNameOf(effects[k].line) \in {"seton", "setoff"}
                THEN /\ effects[k].k = "request"
                     /\ effects[k].m = "output"
                     /\ effects[k].line \notin unavail
                ELSE effects[k].k # "request")
    /\ []((pc \notin {"load_config", "sanitise"} /\ RefusedOutput({"seton", "setoff"})) =>
            ~PastOutputs)
    /\ [][(pc = "outputs_wait" /\ pc' = "failed" /\ err' = "gpio") =>
            \E r \in running : r.by = 0 /\ r.func \in {"seton", "setoff"}]_vars

C13_Witness ==
    /\ PastOutputs
    /\ RefusedOutput({"halt"})
    /\ \E k \in DOMAIN effects :
        /\ ByOutputs(k)
        /\ effects[k].k = "call"
        /\ effects[k].line \in unavail

\* ------------------------------------------------------------ the subscription collection
InTick == pc \in {"tick", "tick_wait"}

\* the sequence 1, 2, .., n
UpTo(n) == [k \in 1..n |-> k]

\* the input loop has pushed the binding it has just taken, at the end
PushedInOrder ==
    \E k \in DOMAIN inTodo :
        /\ inTodo' = MapRemove(inTodo, k)
        /\ events' = Append(events, [func |-> inTodo[k], gpio |-> ParseU32(k).val])

\* C14: once tick runs, the subscriptions, their action names and their line
\* numbers never change; each pass over them visits every subscription once, in
\* the order of the collection, which is the order in which the input loop met the
\* bindings.
C14_CollectionFixedAndVisitedInOrder ==
    /\ [][InTick => events' = events]_vars
    /\ [][(pc = "inputs" /\ events' # events) => PushedInOrder]_vars
    /\ [][(pc = "tick" /\ idx > Len(events) /\ idx' = 1) => passLog = UpTo(Len(events))]_vars
    /\ [](InTick =>
            /\ passLog = UpTo(Len(passLog))
            /\ Len(passLog) <= Len(events)
            /\ Len(events) = Cardinality(DOMAIN cfg.input_binding)
            /\ (pc = "tick" => idx = Len(passLog) + 1))

C14_Witness ==
    /\ pc = "tick"
    /\ Len(events) = 2
    /\ passLog = <<1>>
    /\ eosSeen[2] >= 1
    /\ fallsRead[1] >= 1

\* ------------------------------------------------------------ the order of startup
\* the two for loops of main have been reached
LoopsReached ==
    \/ pc \in {"outputs", "outputs_wait", "inputs", "tick", "tick_wait"}
    \/ pc = "failed" /\ err \in {"parse", "gpio", "manager", "stream"}

\* the input loop has taken a binding
InputTouched == LoopsReached /\ (events # <<>> \/ DOMAIN inTodo # DOMAIN cfg.input_binding)

\* tick has read from a subscription
ReadSome ==
    \/ errRead # 0
    \/ passLog # <<>>
    \/ \E i \in Subs : fallsRead[i] + risesRead[i] + eosSeen[i] > 0

\* the output binding under key k has had its effect
TookEffect(k) ==
    \E j \in DOMAIN effects :
        /\ effects[j].by = 0
        /\ effects[j].line = ParseU32(k).val
        /\ CASE cfg.output_binding[k] \in PowerNames -> effects[j].k = "call" /\ effects[j].arg = 1
             [] cfg.output_binding[k] \in {"seton", "setoff"} -> effects[j].k = "request"
             [] OTHER -> effects[j].k = "log_error"

OutputsAllDone ==
    /\ DOMAIN outTodo = {}
    /\ \A r \in running : r.by # 0
    /\ \A k \in DOMAIN cfg.output_binding : ParseU32(k).ok /\ TookEffect(k)

\* C15: every output binding has been executed before the input loop takes its
\* first binding, and every input binding is subscribed before tick reads; a bad
\* input binding aborts startup only after all outputs have had their effect.
C15_OutputsThenInputsThenTick ==
    /\ []((InputTouched \/ PastOutputs) => OutputsAllDone)
    /\ []((InTick \/ ReadSome) =>
            /\ DOMAIN inTodo = {}
            /\ Len(events) = Cardinality(DOMAIN cfg.input_binding))
    /\ [][(pc = "inputs" /\ (inTodo' # inTodo \/ events' # events)) => OutputsAllDone]_vars

C15_Witness ==
    /\ pc = "failed"
    /\ err \in {"parse", "gpio"}
    /\ InputTouched
    /\ Len(events) = 1
    /\ DOMAIN cfg.output_binding # {}
    /\ OutputsAllDone

\* ------------------------------------------------------------ tick never returns
\* every subscription has reached its end
AllEnded == \A i \in Subs : AtEnd(i)

\* C17: tick never returns Ok(()): it is left only through an error, and with no
\* subscription or with every subscription ended it can always go on.
C17_TickEndsOnlyByError ==
    /\ [](pc # "done")
    /\ [][InTick => pc' \in {"tick", "tick_wait", "failed"}]_vars
    /\ [][(InTick /\ pc' = "failed") => err' \in {"stream", "manager", "gpio"}]_vars
    /\ []((pc = "tick" /\ AllEnded) => ENABLED (TickEndOfStream \/ TickNextPass))
    /\ [][(pc = "tick" /\ AllEnded) => (pc' = "tick" /\ err' = err /\ effects' = effects /\ running' = running)]_vars

C17_Witness ==
    /\ pc = "tick"
    /\ Len(events) = 2
    /\ AllEnded
    /\ \A i \in Subs : eosSeen[i] >= 2
    /\ effects = <<>>

\* ------------------------------------------------------------ sanitising whole maps
\* keys of which two become the same key, and one that hides "gpio" in "gpio"
KeyOne == <<"1">>
KeyGpioOne == <<" ">> \o gpioLit \o <<"1">>
KeyNested == <<"g", "p">> \o gpioLit \o <<"i", "o", "2">>
KeyOther == <<"x">>
KeyGpioThree == gpioLit \o <<"3">>
KeyThree == <<"3", " ">>

MapInKeys == {KeyOne, KeyGpioOne, KeyNested, KeyOther}
MapOutKeys == {KeyGpioThree, KeyThree}
MapNames == {"seton", "halt"}

MapFiles ==
    {[state |-> "present",
      content |-> ToStringPretty([master_chip |-> DEFAULT_CHIP, log_level |-> 3,
                                  input_binding |-> i, output_binding |-> o])] :
        i \in Bindings(MapInKeys, MapNames), o \in Bindings(MapOutKeys, MapNames)}

InitMap ==
    /\ file \in MapFiles
    /\ chipOk = TRUE
    /\ unavail = {}
    /\ Fresh

MapSpec == InitMap /\ [][NextSan]_vars

\* what each of these keys is once "gpio" is removed, left to right and once, and
\* the rest is trimmed
Cleaned(k) ==
    CASE k = KeyGpioOne -> <<"1">>
      [] k = KeyNested -> <<"g", "p", "i", "o", "2">>
      [] k = KeyGpioThree -> <<"3">>
      [] k = KeyThree -> <<"3">>
      [] OTHER -> k

\* the string s has the string pat inside
Contains(s, pat) ==
    \E i \in 1..(Len(s) - Len(pat) + 1) : SubSeq(s, i, i + Len(pat) - 1) = pat

\* the map san holds, under the cleaned keys, values of the map rawMap
EntriesCleaned(rawMap, san) ==
    /\ DOMAIN san = {Cleaned(k) : k \in DOMAIN rawMap}
    /\ \A c \in DOMAIN san : san[c] \in {rawMap[k] : k \in {x \in DOMAIN rawMap : Cleaned(x) = c}}
    /\ \A k \in DOMAIN rawMap : ~NonNumeric(k) => k \in DOMAIN san

\* C16 (as stated): each entry (k, v) becomes (k', v); no sanitised key contains
\* "gpio" and each sanitised map has as many entries as its raw map.
C16_NoEntryLostNoGpioLeft ==
    Sanitised =>
        /\ EntriesCleaned(raw.input_binding, cfg.input_binding)
        /\ EntriesCleaned(raw.output_binding, cfg.output_binding)
        /\ \A k \in DOMAIN cfg.input_binding \cup DOMAIN cfg.output_binding :
                ~Contains(k, gpioLit)
        /\ Cardinality(DOMAIN cfg.input_binding) = Cardinality(DOMAIN raw.input_binding)
        /\ Cardinality(DOMAIN cfg.output_binding) = Cardinality(DOMAIN raw.output_binding)

\* C16 (amended): the keys of each sanitised map are the cleaned keys of its own
\* raw map, each with the value of a raw entry that has this cleaned key; numeric
\* keys stay; entries whose keys clean to the same key become one entry, so a map
\* may shrink but never grows; the step never fails.
C16_EntriesCleanedPerMap ==
    /\ pc # "failed"
    /\ Sanitised =>
        /\ EntriesCleaned(raw.input_binding, cfg.input_binding)
        /\ EntriesCleaned(raw.output_binding, cfg.output_binding)
        /\ Cardinality(DOMAIN cfg.input_binding) <= Cardinality(DOMAIN raw.input_binding)
        /\ Cardinality(DOMAIN cfg.output_binding) <= Cardinality(DOMAIN raw.output_binding)
        /\ cfg.master_chip = raw.master_chip
        /\ cfg.log_level = raw.log_level

C16_Witness ==
    /\ Sanitised
    /\ DOMAIN raw.input_binding = {KeyOne, KeyGpioOne, KeyNested}
    /\ raw.input_binding[KeyOne] # raw.input_binding[KeyGpioOne]
    /\ DOMAIN cfg.input_binding = {<<"1">>, <<"g", "p", "i", "o", "2">>}
    /\ cfg.input_binding[<<"1">>] = raw.input_binding[KeyOne]
    /\ DOMAIN raw.output_binding = {KeyGpioThree, KeyThree}
    /\ Cardinality(DOMAIN cfg.output_binding) = 1

\* ------------------------------------------------------------ the logger
\* C18: the logger is initialised exactly once, before load_config, the
\* sanitising, the opening of the chip and the output loop run.
C18_LoggerBeforeEverything ==
    /\ logInits <= 1
    /\ pc # "load_config" => logInits = 1

\* ------------------------------------------------------------ one event per visit
\* tick has taken an item from the stream of subscription i
ReadFrom(i) == i \in DOMAIN stream /\ Len(stream'[i].q) < Len(stream[i].q)

\* C19: a visit takes at most one event from the stream of its subscription and
\* the loop moves on; a subscription is read again only in a later pass, after
\* every other subscription has been visited, so a rising edge and then a falling
\* edge on one line are not both handled in one pass.
C19_OneEventPerVisit ==
    /\ [][\A i \in DOMAIN stream :
            ReadFrom(i) =>
                /\ Len(stream'[i].q) = Len(stream[i].q) - 1
                /\ pc = "tick"
                /\ passLog = UpTo(i - 1)
                /\ passLog' = UpTo(i)
                /\ idx' = i + 1]_vars
    /\ [][(passLog # <<>> /\ passLog' = <<>>) => passLog = UpTo(Len(events))]_vars
    /\ [](\A i \in Subs :
            (pc = "tick" /\ risesRead[i] = 1 /\ fallsRead[i] = 0 /\ eosSeen[i] = 0
             /\ stream[i].q # <<>> /\ idx > i) => invoked[i] = 0)

C19_Witness ==
    /\ pc = "tick"
    /\ Len(events) = 2
    /\ passLog = <<1>>
    /\ risesRead[1] = 1
    /\ fallsRead[1] = 0
    /\ stream[1].q = <<"Falling">>
    /\ invoked[1] = 0
    /\ stream[2].q = <<>>
    /\ ~stream[2].closed

\* ------------------------------------------------------------ after a power action
\* number of effects of kind `kind` done for subscription `by`
RECURSIVE CountOf(_, _, _)
CountOf(log, kind, by) ==
    IF log = <<>> THEN 0
    ELSE (IF Head(log).k = kind /\ Head(log).by = by THEN 1 ELSE 0)
         + CountOf(Tail(log), kind, by)

\* the step is a manager call that returns Ok
CallSucceeds ==
    /\ Len(effects') = Len(effects) + 1
    /\ effects'[Len(effects')].k = "call"
    /\ effects'[Len(effects')].arg = 1

\* C20: after a power action whose manager call succeeds the daemon goes on: tick
\* resumes with the next subscription, and every later falling edge runs its
\* action again, a power action with its own flush, delay and manager call.
C20_PowerActionDoesNotStop ==
    /\ [][CallSucceeds =>
            /\ err' = err
            /\ pc' = (IF FromTick(effects'[Len(effects')].by) THEN "tick" ELSE "outputs")
            /\ running' = {}
            /\ idx' = idx]_vars
    /\ [](pc = "tick" =>
            \A i \in Subs :
                /\ invoked[i] = fallsRead[i]
                /\ events[i].func \in PowerNames =>
                    /\ CountOf(effects, "sync", i) = fallsRead[i]
                    /\ CountOf(effects, "sleep", i) = fallsRead[i]
                    /\ CountOf(effects, "call", i) = fallsRead[i])

C20_Witness ==
    /\ pc = "tick"
    /\ \E i \in Subs :
        /\ events[i].func \in PowerNames
        /\ fallsRead[i] = 2
        /\ CountOf(effects, "call", i) = 2
        /\ CountOf(effects, "sync", i) = 2
        /\ Len(effects) = 6
        /\ effects[3].k = "call"
        /\ effects[3].arg = 1
        /\ effects[4].k = "sync"

====
